---- MODULE Spec2Model ----
(***************************************************************************)
(* Model of arango/aql.py: the AQL and AQLQueryCache API wrappers.  Every  *)
(* API method builds a Request and a response handler; the api_method      *)
(* decorator submits the request through the connection and applies the    *)
(* handler to the response.  Python dicts are functions with a finite      *)
(* domain of string keys, lists are sequences, and an optional argument is *)
(* the empty set (None) or a singleton set holding the supplied value.     *)
(***************************************************************************)
EXTENDS Integers, Sequences, FiniteSets, TLC

VARIABLES
    op,              \* name of the API method of the latest call
    args,            \* its arguments
    request,         \* the Request it built
    response,        \* the response as handed to the handler
    response_after,  \* the same response object once the handler is done
    outcome,         \* what the call did: a returned value or a raised error
    store,           \* server: registered AQL functions, name -> code
    cache_props,     \* server: query cache properties {mode, maxResults}
    latest,          \* per name: None once a delete of it returned, else the
                     \* code of the last create_function that returned
    cursor,          \* client: the data held by the Cursor execute returned
    pc,              \* client: where the caller of Cursor.next() stands
    yielded,         \* documents Cursor.next() has returned so far
    srv_batches,     \* server: the batches of the cursor not yet delivered
    delivered,       \* all documents the server has put on the wire
    in_flight,       \* fetch requests sent and not yet answered
    fetch_log        \* for every fetch sent: the cursor's batch and has_more then

callVars   == <<op, args, request, response, response_after, outcome>>
serverVars == <<store, cache_props, latest>>
cursorVars == <<cursor, pc, yielded, srv_batches, delivered, in_flight, fetch_log>>
vars       == <<op, args, request, response, response_after, outcome,
                store, cache_props, latest,
                cursor, pc, yielded, srv_batches, delivered, in_flight, fetch_log>>

---------------------------------------------------------------------------
(* Python values *)

None == {}
Some(v) == {v}
Value(x) == CHOOSE v \in x : TRUE
\* a keyword argument the caller left out takes the default of the signature
Default(x, d) == IF x = None THEN d ELSE Value(x)

EmptyDict == <<>>
Put(d, k, v) == [x \in DOMAIN d \cup {k} |-> IF x = k THEN v ELSE d[x]]
Pop(d, k) == [x \in DOMAIN d \ {k} |-> d[x]]
Restrict(d, K) == [x \in K |-> d[x]]
SubDicts(d) == {Restrict(d, K) : K \in SUBSET DOMAIN d}

Return(v) == [kind |-> "return", value |-> v]
Raise(e) == [kind |-> "raise", error |-> e]
\* d[k] on a dict: the value, or KeyError when the key is missing
GetItem(d, k) == IF k \in DOMAIN d THEN Return(d[k]) ELSE Raise("KeyError")

\* what a handler leaves behind: its outcome and the response object afterwards
Handled(o, res) == [outcome |-> o, res |-> res]

HTTP_OK == 200 .. 206
HTTP_NOT_FOUND == 404

---------------------------------------------------------------------------
(* AQL.explain *)

ExplainRequestAllDefaults(query, all_plans, max_plans, opt_rules) ==
    LET o1 == Put([allPlans |-> all_plans], "maxNumberOfPlans",
                  IF max_plans # None THEN Value(max_plans) ELSE 0)
        o2 == IF opt_rules # None
              THEN Put(o1, "optimizer", [rules |-> Value(opt_rules)])
              ELSE o1
    IN  [method |-> "post", endpoint |-> "/_api/explain",
         data |-> [query |-> query, options |-> o2]]

ExplainRequest(query, all_plans, max_plans, opt_rules) ==
    LET o0 == [allPlans |-> all_plans]
        o1 == IF max_plans # None
              THEN Put(o0, "maxNumberOfPlans", Value(max_plans))
              ELSE o0
        o2 == IF opt_rules # None
              THEN Put(o1, "optimizer", [rules |-> Value(opt_rules)])
              ELSE o1
    IN  [method |-> "post", endpoint |-> "/_api/explain",
         data |-> [query |-> query, options |-> o2]]

ExplainHandlerPlansFirst(res) ==
    IF res.status_code \notin HTTP_OK
    THEN Handled(Raise("AQLQueryExplainError"), res)
    ELSE Handled(GetItem(res.body,
                         IF "plans" \in DOMAIN res.body THEN "plans" ELSE "plan"),
                 res)

ExplainHandler(res) ==
    IF res.status_code \notin HTTP_OK
    THEN Handled(Raise("AQLQueryExplainError"), res)
    ELSE Handled(GetItem(res.body,
                         IF "plan" \in DOMAIN res.body THEN "plan" ELSE "plans"),
                 res)

(* AQL.validate *)

ValidateRequest(query) ==
    [method |-> "post", endpoint |-> "/_api/query", data |-> [query |-> query]]

\* res.body.pop(...) removes the keys from the response's own body, and the
\* handler returns that same dict
ValidateHandler(res) ==
    IF res.status_code \notin HTTP_OK
    THEN Handled(Raise("AQLQueryValidateError"), res)
    ELSE LET body == Pop(Pop(res.body, "code"), "error")
         IN  Handled(Return(body), [res EXCEPT !.body = body])

(* AQL.execute *)

ExecuteRequestTruthy(query, count, batch_size, ttl, bind_vars, full_count, max_plans, optimizer_rules) ==
    LET o1 == IF full_count # None /\ Value(full_count)
              THEN Put(EmptyDict, "fullCount", Value(full_count))
              ELSE EmptyDict
        o2 == IF max_plans # None /\ Value(max_plans) # 0
              THEN Put(o1, "maxNumberOfPlans", Value(max_plans))
              ELSE o1
        o3 == IF optimizer_rules # None
              THEN Put(o2, "optimizer", [rules |-> Value(optimizer_rules)])
              ELSE o2
        d0 == [query |-> query, count |-> count]
        d1 == IF batch_size # None
              THEN Put(d0, "batchSize", Value(batch_size))
              ELSE d0
        d2 == IF ttl # None THEN Put(d1, "ttl", Value(ttl)) ELSE d1
        d3 == IF bind_vars # None
              THEN Put(d2, "bindVars", Value(bind_vars))
              ELSE d2
        d4 == IF DOMAIN o3 # {} THEN Put(d3, "options", o3) ELSE d3
    IN  [method |-> "post", endpoint |-> "/_api/cursor", data |-> d4]

ExecuteRequest(query, count, batch_size, ttl, bind_vars, full_count, max_plans, optimizer_rules) ==
    LET o1 == IF full_count # None
              THEN Put(EmptyDict, "fullCount", Value(full_count))
              ELSE EmptyDict
        o2 == IF max_plans # None
              THEN Put(o1, "maxNumberOfPlans", Value(max_plans))
              ELSE o1
        o3 == IF optimizer_rules # None
              THEN Put(o2, "optimizer", [rules |-> Value(optimizer_rules)])
              ELSE o2
        d0 == [query |-> query, count |-> count]
        d1 == IF batch_size # None
              THEN Put(d0, "batchSize", Value(batch_size))
              ELSE d0
        d2 == IF ttl # None THEN Put(d1, "ttl", Value(ttl)) ELSE d1
        d3 == IF bind_vars # None
              THEN Put(d2, "bindVars", Value(bind_vars))
              ELSE d2
        \* "if options:" a dict is true when it has at least one key
        d4 == IF DOMAIN o3 # {} THEN Put(d3, "options", o3) ELSE d3
    IN  [method |-> "post", endpoint |-> "/_api/cursor", data |-> d4]

\* Cursor(connection, init_data): the cursor keeps the response body it is given
Cursor(init_data) == [data |-> init_data]

ExecuteHandlerWithoutResult(res) ==
    IF res.status_code \notin HTTP_OK
    THEN Handled(Raise("AQLQueryExecuteError"), res)
    ELSE Handled(Return(Cursor(Put(res.body, "result", <<>>))), res)

ExecuteHandler(res) ==
    IF res.status_code \notin HTTP_OK
    THEN Handled(Raise("AQLQueryExecuteError"), res)
    ELSE Handled(Return(Cursor(res.body)), res)

(* AQL.functions *)

FunctionsRequest == [method |-> "get", endpoint |-> "/_api/aqlfunction"]

\* {func['name']: func['code'] for func in body}: a later entry of the list
\* replaces an earlier one of the same name; a missing key is a KeyError
DictOfFunctions(body) ==
    IF \E i \in 1 .. Len(body) : {"name", "code"} \ DOMAIN body[i] # {}
    THEN Raise("KeyError")
    ELSE Return([n \in {body[i].name : i \in 1 .. Len(body)} |->
                   LET last == CHOOSE i \in 1 .. Len(body) :
                                   /\ body[i].name = n
                                   /\ \A j \in (i + 1) .. Len(body) : body[j].name # n
                   IN  body[last].code])

FunctionsHandlerSwapped(res) ==
    IF res.status_code \notin HTTP_OK
    THEN Handled(Raise("AQLFunctionsListError"), res)
    ELSE Handled(DictOfFunctions(
                     [i \in 1 .. Len(res.body) |->
                         IF {"name", "code"} \subseteq DOMAIN res.body[i]
                         THEN [res.body[i] EXCEPT !.code = res.body[i].name]
                         ELSE res.body[i]]), res)

\* "res.body or {}": an empty body counts as no functions
FunctionsHandler(res) ==
    IF res.status_code \notin HTTP_OK
    THEN Handled(Raise("AQLFunctionsListError"), res)
    ELSE LET body == IF Len(res.body) = 0 THEN EmptyDict ELSE res.body
         IN  Handled(DictOfFunctions(body), res)

(* AQL.create_function *)

CreateFunctionRequest(name, code) ==
    [method |-> "post", endpoint |-> "/_api/aqlfunction",
     data |-> [name |-> name, code |-> code]]

CreateFunctionHandlerAnyOk(res) ==
    IF res.status_code \notin HTTP_OK
    THEN Handled(Raise("AQLFunctionCreateError"), res)
    ELSE LET e == GetItem(res.body, "error")
         IN  Handled(IF e.kind = "return" THEN Return(~e.value) ELSE e, res)

CreateFunctionHandler(res) ==
    IF res.status_code \notin {200, 201}
    THEN Handled(Raise("AQLFunctionCreateError"), res)
    ELSE LET e == GetItem(res.body, "error")
         IN  Handled(IF e.kind = "return" THEN Return(~e.value) ELSE e, res)

(* AQL.delete_function *)

DeleteFunctionRequest(name, group) ==
    [method |-> "delete", endpoint |-> "/_api/aqlfunction/" \o name,
     params |-> IF group # None THEN [group |-> Value(group)] ELSE EmptyDict]

DeleteFunctionHandlerStrict(res, ignore_missing) ==
    IF res.status_code \notin HTTP_OK
    THEN Handled(Raise("AQLFunctionDeleteError"), res)
    ELSE LET e == GetItem(res.body, "error")
         IN  Handled(IF e.kind = "return" THEN Return(~e.value) ELSE e, res)

DeleteFunctionHandlerMissingIsTrue(res, ignore_missing) ==
    IF res.status_code \notin HTTP_OK
    THEN IF res.status_code = HTTP_NOT_FOUND /\ ignore_missing
         THEN Handled(Return(TRUE), res)
         ELSE Handled(Raise("AQLFunctionDeleteError"), res)
    ELSE LET e == GetItem(res.body, "error")
         IN  Handled(IF e.kind = "return" THEN Return(~e.value) ELSE e, res)

DeleteFunctionHandler(res, ignore_missing) ==
    IF /\ res.status_code \notin HTTP_OK
       /\ ~(res.status_code = HTTP_NOT_FOUND /\ ignore_missing)
    THEN Handled(Raise("AQLFunctionDeleteError"), res)
    ELSE LET e == GetItem(res.body, "error")
         IN  Handled(IF e.kind = "return" THEN Return(~e.value) ELSE e, res)

(* AQLQueryCache.properties *)

PropertiesRequest ==
    [method |-> "get", endpoint |-> "/_api/query-cache/properties"]

\* {'mode': res.body['mode'], 'limit': res.body['maxResults']}
ModeAndLimit(body) ==
    IF {"mode", "maxResults"} \subseteq DOMAIN body
    THEN Return([mode |-> body.mode, limit |-> body.maxResults])
    ELSE Raise("KeyError")

PropertiesHandler(res) ==
    IF res.status_code \notin HTTP_OK
    THEN Handled(Raise("AQLCacheGetPropertiesError"), res)
    ELSE Handled(ModeAndLimit(res.body), res)

(* AQLQueryCache.configure *)

ConfigureRequestWithDefaultMode(mode, limit) ==
    LET d1 == Put(EmptyDict, "mode", IF mode # None THEN Value(mode) ELSE "off")
        d2 == IF limit # None THEN Put(d1, "maxResults", Value(limit)) ELSE d1
    IN  [method |-> "put", endpoint |-> "/_api/query-cache/properties",
         data |-> d2]

ConfigureRequest(mode, limit) ==
    LET d1 == IF mode # None THEN Put(EmptyDict, "mode", Value(mode)) ELSE EmptyDict
        d2 == IF limit # None THEN Put(d1, "maxResults", Value(limit)) ELSE d1
    IN  [method |-> "put", endpoint |-> "/_api/query-cache/properties",
         data |-> d2]

ConfigureHandler(res) ==
    IF res.status_code \notin HTTP_OK
    THEN Handled(Raise("AQLCacheConfigureError"), res)
    ELSE Handled(ModeAndLimit(res.body), res)

(* AQLQueryCache.clear *)

ClearRequest == [method |-> "delete", endpoint |-> "/_api/query-cache"]

ClearHandler(res) ==
    IF res.status_code \notin HTTP_OK
    THEN Handled(Raise("AQLCacheClearError"), res)
    ELSE LET e == GetItem(res.body, "error")
         IN  Handled(IF e.kind = "return" THEN Return(~e.value) ELSE e, res)

---------------------------------------------------------------------------
(* The api_method call: build the request, submit it, apply the handler *)

Response(status_code, body) == [status_code |-> status_code, body |-> body]

\* the call's effect on the caller's side: h is the handler's result on res
Submit(name, a, req, res, h) ==
    /\ op' = name
    /\ args' = a
    /\ request' = req
    /\ response' = res
    /\ response_after' = h.res
    /\ outcome' = h.outcome

---------------------------------------------------------------------------
(* Inputs *)

MaxFuncs == 2

Queries == {"RETURN 1"}
Names == {"ns::f", "ns::g", "m::h"}
Codes == {"function(){}", "function(){return 1}"}
Modes == {"off", "on", "demand"}
Limits == {0, 5, 10}
OptInt == {None, Some(0), Some(2)}
OptBool == {None, Some(FALSE), Some(TRUE)}
OptRules == {None, Some(<<>>), Some(<<"+all">>)}
OptBindVars == {None, Some(EmptyDict), Some([v |-> 1])}

Statuses == HTTP_OK \cup {207, 400, HTTP_NOT_FOUND, 500}

\* Response bodies: any selection of the fields the server's API documents,
\* as long as the fields the API always sends are there: 'error' in the
\* answers of the function and cache-clear endpoints, 'plan' or 'plans' in an
\* explanation, 'mode' and 'maxResults' in the cache properties, 'name' and
\* 'code' in every listed function.
ExplainBodies ==
    {b \in SubDicts([plan |-> "planA", plans |-> <<"planA", "planB">>,
                     error |-> FALSE, code |-> 200]) :
        {"plan", "plans"} \cap DOMAIN b # {}}
ExplainErrorBodies == SubDicts([error |-> TRUE, code |-> 400])
ValidateBodies ==
    SubDicts([code |-> 200, error |-> FALSE, parsed |-> TRUE, bindVars |-> <<>>])
ExecuteBodies ==
    {[result |-> r, hasMore |-> m, error |-> FALSE] :
        r \in {<<>>, <<"d1", "d2">>}, m \in BOOLEAN}
FunctionEntries ==
    [name : Names, code : Codes]
FunctionsBodies ==
    UNION {[1 .. n -> FunctionEntries] : n \in 0 .. MaxFuncs}
ErrorBodies ==
    {b \in UNION {SubDicts([error |-> e, code |-> 200]) : e \in BOOLEAN} :
        "error" \in DOMAIN b}
PropertiesBodies ==
    {b \in UNION {SubDicts([mode |-> m, maxResults |-> l, error |-> FALSE]) :
                     m \in Modes, l \in Limits} :
        {"mode", "maxResults"} \subseteq DOMAIN b}

---------------------------------------------------------------------------
(* The nine API methods against a transport that may answer anything *)

explain ==
    \E query \in Queries, all_plans \in OptBool, max_plans \in OptInt,
       opt_rules \in OptRules, status \in Statuses,
       body \in ExplainBodies \cup ExplainErrorBodies :
        LET res == Response(status, body)
        IN  /\ status \in HTTP_OK => body \in ExplainBodies
            /\ Submit("explain",
                      [query |-> query, all_plans |-> all_plans,
                       max_plans |-> max_plans, opt_rules |-> opt_rules],
                      ExplainRequest(query, Default(all_plans, FALSE),
                                     max_plans, opt_rules),
                      res, ExplainHandler(res))

validate ==
    \E query \in Queries, status \in Statuses, body \in ValidateBodies :
        LET res == Response(status, body)
        IN  Submit("validate", [query |-> query], ValidateRequest(query),
                   res, ValidateHandler(res))

execute ==
    \E query \in Queries, count \in OptBool, batch_size \in OptInt,
       ttl \in {None, Some(0)}, bind_vars \in OptBindVars,
       full_count \in OptBool, max_plans \in OptInt,
       optimizer_rules \in OptRules,
       status \in Statuses, body \in ExecuteBodies :
        LET res == Response(status, body)
        IN  Submit("execute",
                   [query |-> query, count |-> count, batch_size |-> batch_size,
                    ttl |-> ttl, bind_vars |-> bind_vars,
                    full_count |-> full_count, max_plans |-> max_plans,
                    optimizer_rules |-> optimizer_rules],
                   ExecuteRequest(query, Default(count, FALSE), batch_size,
                                  ttl, bind_vars, full_count, max_plans,
                                  optimizer_rules),
                   res, ExecuteHandler(res))

functions ==
    \E status \in Statuses, body \in FunctionsBodies :
        LET res == Response(status, body)
        IN  Submit("functions", EmptyDict, FunctionsRequest,
                   res, FunctionsHandler(res))

create_function ==
    \E name \in Names, code \in Codes,
       status \in Statuses, body \in ErrorBodies :
        LET res == Response(status, body)
        IN  Submit("create_function", [name |-> name, code |-> code],
                   CreateFunctionRequest(name, code),
                   res, CreateFunctionHandler(res))

delete_function ==
    \E name \in Names, group \in OptBool, ignore_missing \in OptBool,
       status \in Statuses, body \in ErrorBodies :
        LET res == Response(status, body)
        IN  Submit("delete_function",
                   [name |-> name, group |-> group,
                    ignore_missing |-> ignore_missing],
                   DeleteFunctionRequest(name, group),
                   res,
                   DeleteFunctionHandler(res, Default(ignore_missing, FALSE)))

properties ==
    \E status \in Statuses, body \in PropertiesBodies :
        LET res == Response(status, body)
        IN  Submit("properties", EmptyDict, PropertiesRequest,
                   res, PropertiesHandler(res))

configure ==
    \E mode \in {None} \cup {Some(m) : m \in Modes},
       limit \in {None} \cup {Some(l) : l \in Limits},
       status \in Statuses, body \in PropertiesBodies :
        LET res == Response(status, body)
        IN  Submit("configure", [mode |-> mode, limit |-> limit],
                   ConfigureRequest(mode, limit),
                   res, ConfigureHandler(res))

clear ==
    \E status \in Statuses, body \in ErrorBodies :
        LET res == Response(status, body)
        IN  Submit("clear", EmptyDict, ClearRequest, res, ClearHandler(res))

---------------------------------------------------------------------------

InitCall ==
    /\ op = "none"
    /\ args = EmptyDict
    /\ request = EmptyDict
    /\ response = Response(200, EmptyDict)
    /\ response_after = Response(200, EmptyDict)
    /\ outcome = Return(EmptyDict)

InitServer ==
    /\ store = EmptyDict
    /\ cache_props = [mode |-> "off", maxResults |-> 5]
    /\ latest = [n \in Names |-> None]

InitCursor ==
    /\ cursor = None
    /\ pc = "none"
    /\ yielded = <<>>
    /\ srv_batches = <<>>
    /\ delivered = <<>>
    /\ in_flight = 0
    /\ fetch_log = <<>>

Init == InitCall /\ InitServer /\ InitCursor

\* The wrappers keep no state between calls, so a behaviour follows one call.
FirstCall == op = "none" /\ UNCHANGED <<serverVars, cursorVars>>

Next ==
    \/ FirstCall /\ explain
    \/ FirstCall /\ validate
    \/ FirstCall /\ execute
    \/ FirstCall /\ functions
    \/ FirstCall /\ create_function
    \/ FirstCall /\ delete_function
    \/ FirstCall /\ properties
    \/ FirstCall /\ configure
    \/ FirstCall /\ clear

Spec == Init /\ [][Next]_vars

---------------------------------------------------------------------------
(* The function endpoints against a server that stores functions by name *)

Namespaces == {"ns", "m"}
NamespaceOf == ("ns::f" :> "ns") @@ ("ns::g" :> "ns") @@ ("m::h" :> "m")

Served(res, st) == [res |-> res, store |-> st]
\* the server turns the request down and changes nothing
Refused(st) == Served(Response(500, [error |-> TRUE, code |-> 500]), st)

\* POST /_api/aqlfunction: 201 for a new name, 200 when the name is replaced
RegisterFunction(req, st) ==
    LET status == IF req.data.name \in DOMAIN st THEN 200 ELSE 201
    IN  Served(Response(status, [error |-> FALSE, code |-> status]),
               Put(st, req.data.name, req.data.code))

\* DELETE /_api/aqlfunction/{name}?group=..: with group the name is a namespace
UnregisterFunction(req, st) ==
    LET name == CHOOSE n \in Names \cup Namespaces :
                    req.endpoint = "/_api/aqlfunction/" \o n
        group == "group" \in DOMAIN req.params /\ req.params.group
        gone == IF group
                THEN {f \in DOMAIN st : NamespaceOf[f] = name}
                ELSE {name} \cap DOMAIN st
    IN  IF ~group /\ gone = {}
        THEN Served(Response(404, [error |-> TRUE, code |-> 404]), st)
        ELSE Served(Response(200, [error |-> FALSE, code |-> 200]),
                    Restrict(st, DOMAIN st \ gone))

\* GET /_api/aqlfunction: the stored functions, one entry each, in any order
ListFunctions(st) ==
    {Response(200, body) :
        body \in {b \in [1 .. Cardinality(DOMAIN st) ->
                            {[name |-> n, code |-> st[n]] : n \in DOMAIN st}] :
                     \A i, j \in DOMAIN b : i # j => b[i] # b[j]}}

functions_served ==
    \E res \in ListFunctions(store) \cup {Refused(store).res} :
        /\ Submit("functions", EmptyDict, FunctionsRequest,
                  res, FunctionsHandler(res))
        /\ UNCHANGED <<store, cache_props, latest, cursorVars>>

create_function_served ==
    \E name \in Names, code \in Codes, accepted \in BOOLEAN :
        LET req == CreateFunctionRequest(name, code)
            srv == IF accepted THEN RegisterFunction(req, store)
                   ELSE Refused(store)
            h == CreateFunctionHandler(srv.res)
        IN  /\ Submit("create_function", [name |-> name, code |-> code],
                      req, srv.res, h)
            /\ store' = srv.store
            /\ latest' = IF h.outcome.kind = "return"
                         THEN [latest EXCEPT ![name] = Some(code)]
                         ELSE latest
            /\ UNCHANGED <<cache_props, cursorVars>>

delete_function_served ==
    \E name \in Names \cup Namespaces, group \in OptBool,
       ignore_missing \in OptBool, accepted \in BOOLEAN :
        LET req == DeleteFunctionRequest(name, group)
            srv == IF accepted THEN UnregisterFunction(req, store)
                   ELSE Refused(store)
            h == DeleteFunctionHandler(srv.res, Default(ignore_missing, FALSE))
            named == IF group = Some(TRUE)
                     THEN {f \in Names : NamespaceOf[f] = name}
                     ELSE {name} \cap Names
        IN  /\ Submit("delete_function",
                      [name |-> name, group |-> group,
                       ignore_missing |-> ignore_missing],
                      req, srv.res, h)
            /\ store' = srv.store
            /\ latest' = IF h.outcome.kind = "return"
                         THEN [n \in Names |->
                                  IF n \in named THEN None ELSE latest[n]]
                         ELSE latest
            /\ UNCHANGED <<cache_props, cursorVars>>

NextFunctions ==
    \/ functions_served
    \/ create_function_served
    \/ delete_function_served

SpecFunctions == Init /\ [][NextFunctions]_vars

---------------------------------------------------------------------------
(* The cache endpoints against a server that overwrites the properties it is sent *)

\* PUT /_api/query-cache/properties: only the properties in the body change
UpdateProperties(req, props) ==
    LET new == [k \in DOMAIN props |->
                   IF k \in DOMAIN req.data THEN req.data[k] ELSE props[k]]
    IN  Served(Response(200, [mode |-> new.mode, maxResults |-> new.maxResults,
                              error |-> FALSE, code |-> 200]),
               new)

ReadProperties(props) ==
    Response(200, [mode |-> props.mode, maxResults |-> props.maxResults,
                   error |-> FALSE, code |-> 200])

properties_served ==
    \E res \in {ReadProperties(cache_props), Refused(cache_props).res} :
        /\ Submit("properties", EmptyDict, PropertiesRequest,
                  res, PropertiesHandler(res))
        /\ UNCHANGED <<store, cache_props, latest, cursorVars>>

configure_served ==
    \E mode \in {None} \cup {Some(m) : m \in Modes},
       limit \in {None} \cup {Some(l) : l \in Limits}, accepted \in BOOLEAN :
        LET req == ConfigureRequest(mode, limit)
            srv == IF accepted THEN UpdateProperties(req, cache_props)
                   ELSE Refused(cache_props)
        IN  /\ Submit("configure", [mode |-> mode, limit |-> limit],
                      req, srv.res, ConfigureHandler(srv.res))
            /\ cache_props' = srv.store
            /\ UNCHANGED <<store, latest, cursorVars>>

clear_served ==
    \E res \in {Response(200, [error |-> FALSE, code |-> 200]),
                Refused(cache_props).res} :
        /\ Submit("clear", EmptyDict, ClearRequest, res, ClearHandler(res))
        /\ UNCHANGED <<store, cache_props, latest, cursorVars>>

NextCache ==
    \/ properties_served
    \/ configure_served
    \/ clear_served

SpecCache == Init /\ [][NextCache]_vars

---------------------------------------------------------------------------
(* execute and the Cursor it returns, against a server that pages the result *)

MaxDocs == 4

CursorBatch(c) == c.data.result
CursorHasMore(c) == c.data.hasMore
\* the fetched response replaces the batch and has_more together
CursorReplace(c, body) ==
    [c EXCEPT !.data = Put(Put(@, "result", body.result), "hasMore", body.hasMore)]
CursorPop(c) == [c EXCEPT !.data.result = Tail(@)]

\* the ways the server may cut a result into non-empty batches
RECURSIVE Splits(_)
Splits(docs) ==
    IF docs = <<>> THEN {<<>>}
    ELSE UNION {{<<SubSeq(docs, 1, k)>> \o rest :
                    rest \in Splits(SubSeq(docs, k + 1, Len(docs)))} :
                k \in 1 .. Len(docs)}

CursorBody(batches) ==
    [id |-> "c1",
     result |-> IF batches = <<>> THEN <<>> ELSE Head(batches),
     hasMore |-> Len(batches) > 1,
     error |-> FALSE, code |-> 201]

\* what next() does with the cursor as it stands: pop, fetch or stop
NextStep(c) ==
    IF CursorBatch(c) # <<>>
    THEN /\ yielded' = Append(yielded, Head(CursorBatch(c)))
         /\ cursor' = Some(CursorPop(c))
         /\ pc' = "idle"
         /\ UNCHANGED fetch_log
    ELSE IF CursorHasMore(c)
    THEN /\ pc' = "fetching"
         /\ fetch_log' = Append(fetch_log, [batch |-> CursorBatch(c),
                                            has_more |-> CursorHasMore(c)])
         /\ cursor' = Some(c)
         /\ UNCHANGED yielded
    ELSE /\ pc' = "exhausted"
         /\ cursor' = Some(c)
         /\ UNCHANGED <<yielded, fetch_log>>

execute_served ==
    /\ cursor = None
    /\ op = "none"
    /\ \E n \in 0 .. MaxDocs, count \in OptBool, batch_size \in {None, Some(2)},
          accepted \in BOOLEAN :
        \E batches \in Splits([i \in 1 .. n |-> i]) :
            LET req == ExecuteRequest("RETURN 1", Default(count, FALSE),
                                      batch_size, None, None, None, None, None)
                res == IF accepted THEN Response(201, CursorBody(batches))
                       ELSE Refused(store).res
                h == ExecuteHandler(res)
            IN  /\ Submit("execute",
                          [query |-> "RETURN 1", count |-> count,
                           batch_size |-> batch_size, ttl |-> None,
                           bind_vars |-> None, full_count |-> None,
                           max_plans |-> None, optimizer_rules |-> None],
                          req, res, h)
                /\ IF h.outcome.kind = "return"
                   THEN /\ cursor' = Some(h.outcome.value)
                        /\ pc' = "idle"
                        /\ delivered' = res.body.result
                        /\ srv_batches' = Tail(batches \o <<<<>>>>)
                   ELSE UNCHANGED <<cursor, pc, delivered, srv_batches>>
                /\ UNCHANGED <<serverVars, yielded, in_flight, fetch_log>>

\* Cursor.next(), up to the point where it returns, stops or waits for a fetch
next ==
    /\ cursor # None
    /\ pc \in {"idle", "exhausted"}
    /\ NextStep(Value(cursor))
    /\ in_flight' = IF pc' = "fetching" THEN in_flight + 1 ELSE in_flight
    /\ UNCHANGED <<callVars, serverVars, srv_batches, delivered>>

\* the answer to a fetch arrives and next() goes on from there
fetch_reply ==
    /\ pc = "fetching"
    /\ in_flight > 0
    /\ IF srv_batches = <<>>
       THEN /\ pc' = "failed"
            /\ in_flight' = in_flight - 1
            /\ UNCHANGED <<cursor, yielded, fetch_log, srv_batches, delivered>>
       ELSE /\ NextStep(CursorReplace(Value(cursor), CursorBody(srv_batches)))
            /\ in_flight' = IF pc' = "fetching" THEN in_flight ELSE in_flight - 1
            /\ delivered' = delivered \o Head(srv_batches)
            /\ srv_batches' = Tail(srv_batches)
    /\ UNCHANGED <<callVars, serverVars>>

NextCursor ==
    \/ execute_served
    \/ next
    \/ fetch_reply

SpecCursor == Init /\ [][NextCursor]_vars

---------------------------------------------------------------------------
(* Properties of a single call, under Spec *)

Status == response.status_code
Suppressed ==
    /\ op = "delete_function"
    /\ Status = 404
    /\ Default(args.ignore_missing, FALSE)

\* C1: delete_function on a 404 response returns a value without raising when
\* ignore_missing is True and raises AQLFunctionDeleteError when it is False;
\* on every other status outside the success set it raises
\* AQLFunctionDeleteError whatever ignore_missing is.
C1_DeleteNotFound ==
    op = "delete_function" =>
        /\ (Status = 404 /\ Default(args.ignore_missing, FALSE))
               => outcome.kind = "return"
        /\ (Status = 404 /\ ~Default(args.ignore_missing, FALSE))
               => outcome = Raise("AQLFunctionDeleteError")
        /\ (Status \notin HTTP_OK /\ Status # 404)
               => outcome = Raise("AQLFunctionDeleteError")

C1_Witness ==
    /\ op = "delete_function"
    /\ Status = 404
    /\ args.ignore_missing = Some(TRUE)
    /\ outcome.kind = "return"

ErrorKind ==
    [explain |-> "AQLQueryExplainError",
     validate |-> "AQLQueryValidateError",
     execute |-> "AQLQueryExecuteError",
     functions |-> "AQLFunctionsListError",
     create_function |-> "AQLFunctionCreateError",
     delete_function |-> "AQLFunctionDeleteError",
     properties |-> "AQLCacheGetPropertiesError",
     configure |-> "AQLCacheConfigureError",
     clear |-> "AQLCacheClearError"]

SuccessSet(o) ==
    IF o = "create_function" THEN {200, 201}
    ELSE {200, 201, 202, 203, 204, 205, 206}

\* C2: for each of the nine operations and every response, the handler returns
\* a value only if the status is in the operation's success set, {200..206}
\* or {200, 201} for create_function, and otherwise raises the operation's own
\* error kind; the one suppression is delete_function on 404 with
\* ignore_missing set.
C2_StatusDecides ==
    op # "none" =>
        /\ outcome.kind = "return" => (Status \in SuccessSet(op) \/ Suppressed)
        /\ (Status \notin SuccessSet(op) /\ ~Suppressed)
               => outcome = Raise(ErrorKind[op])
        /\ outcome.kind = "raise" => outcome.error = ErrorKind[op]

C2_Witness ==
    /\ op = "create_function"
    /\ Status = 202
    /\ outcome = Raise("AQLFunctionCreateError")

ExplainOptions == request.data.options

\* C4 as claimed: explain puts allPlans, maxNumberOfPlans and optimizer in the
\* options only when the caller set all_plans, max_plans, opt_rules, so that
\* explain(query) sends none of the three.
C4_OnlyWhenSet ==
    op = "explain" =>
        /\ "allPlans" \in DOMAIN ExplainOptions => args.all_plans # None
        /\ "maxNumberOfPlans" \in DOMAIN ExplainOptions => args.max_plans # None
        /\ "optimizer" \in DOMAIN ExplainOptions => args.opt_rules # None

\* C4 amended: maxNumberOfPlans and optimizer.rules are in the options exactly
\* when max_plans and opt_rules were set, with the caller's values; allPlans
\* is always there, with all_plans or its default False, so explain(query)
\* sends options {allPlans: false}.
C4_AllPlansAlways ==
    op = "explain" =>
        /\ DOMAIN request.data = {"query", "options"}
        /\ DOMAIN ExplainOptions =
               {"allPlans"}
               \cup (IF args.max_plans # None THEN {"maxNumberOfPlans"} ELSE {})
               \cup (IF args.opt_rules # None THEN {"optimizer"} ELSE {})
        /\ ExplainOptions.allPlans = Default(args.all_plans, FALSE)
        /\ args.max_plans # None
               => ExplainOptions.maxNumberOfPlans = Value(args.max_plans)
        /\ args.opt_rules # None
               => ExplainOptions.optimizer = [rules |-> Value(args.opt_rules)]

C4_Witness ==
    /\ op = "explain"
    /\ args.all_plans = None /\ args.max_plans = None /\ args.opt_rules = None
    /\ ExplainOptions = [allPlans |-> FALSE]

\* C5: on a success status explain returns the body's 'plan' when the body
\* has a 'plan' key, also when it has 'plans' too, and otherwise the body's
\* 'plans'; all_plans plays no part in the choice.
C5_PlanElsePlans ==
    (op = "explain" /\ Status \in HTTP_OK) =>
        IF "plan" \in DOMAIN response.body
        THEN outcome = Return(response.body.plan)
        ELSE outcome = Return(response.body.plans)

C5_Witness ==
    /\ op = "explain"
    /\ Status = 200
    /\ args.all_plans = Some(TRUE)
    /\ {"plan", "plans"} \subseteq DOMAIN response.body
    /\ outcome = Return("planA")

ExecuteSupplied ==
    [batchSize |-> args.batch_size, ttl |-> args.ttl, bindVars |-> args.bind_vars]
ExecuteOptionsSupplied ==
    [fullCount |-> args.full_count, maxNumberOfPlans |-> args.max_plans]

\* C6: the body of execute always has 'query' and 'count'; it has 'batchSize',
\* 'ttl', 'bindVars' exactly when batch_size, ttl, bind_vars were supplied; it
\* has 'options' exactly when one of full_count, max_plans, optimizer_rules
\* was supplied, holding exactly 'fullCount', 'maxNumberOfPlans', 'optimizer'
\* for the supplied ones.  A supplied False, 0 or empty value is supplied.
C6_ExecuteBody ==
    op = "execute" =>
        LET data == request.data
            optkeys == {k \in DOMAIN ExecuteOptionsSupplied :
                           ExecuteOptionsSupplied[k] # None}
                       \cup (IF args.optimizer_rules # None
                             THEN {"optimizer"} ELSE {})
        IN  /\ DOMAIN data =
                   {"query", "count"}
                   \cup {k \in DOMAIN ExecuteSupplied : ExecuteSupplied[k] # None}
                   \cup (IF optkeys # {} THEN {"options"} ELSE {})
            /\ data.query = args.query
            /\ data.count = Default(args.count, FALSE)
            /\ \A k \in DOMAIN ExecuteSupplied :
                   ExecuteSupplied[k] # None => data[k] = Value(ExecuteSupplied[k])
            /\ optkeys # {} =>
                   /\ DOMAIN data.options = optkeys
                   /\ \A k \in optkeys \ {"optimizer"} :
                          data.options[k] = Value(ExecuteOptionsSupplied[k])
                   /\ "optimizer" \in optkeys =>
                          data.options.optimizer =
                              [rules |-> Value(args.optimizer_rules)]

C6_Witness ==
    /\ op = "execute"
    /\ args.full_count = Some(FALSE)
    /\ args.max_plans = None /\ args.optimizer_rules = None
    /\ args.batch_size = Some(0) /\ args.ttl = None
    /\ args.bind_vars = Some(EmptyDict)
    /\ request.data = [query |-> args.query, count |-> FALSE, batchSize |-> 0,
                       bindVars |-> EmptyDict, options |-> [fullCount |-> FALSE]]

\* C9: a handler leaves the status code and the body of the response it is
\* given unchanged; validate's handler returns the body without 'code' and
\* 'error' while the response still has them.
C9_HandlersArePure ==
    op # "none" => response_after = response

---------------------------------------------------------------------------
(* Properties of the calls against a server *)

\* C3: the body of configure has 'mode' exactly when mode was supplied and
\* 'maxResults' exactly when limit was supplied, with the caller's values and
\* no other key; so on a server that overwrites only the properties in the
\* body, a configure call that leaves mode out leaves the server's mode as
\* it was.
C3_ConfigurePartial ==
    [][op' = "configure" =>
          /\ DOMAIN request'.data =
                 (IF args'.mode # None THEN {"mode"} ELSE {})
                 \cup (IF args'.limit # None THEN {"maxResults"} ELSE {})
          /\ args'.mode # None => request'.data.mode = Value(args'.mode)
          /\ args'.limit # None => request'.data.maxResults = Value(args'.limit)
          /\ args'.mode = None => cache_props'.mode = cache_props.mode]_vars

C3_Witness ==
    /\ op = "configure"
    /\ args = [mode |-> None, limit |-> Some(0)]
    /\ request.data = [maxResults |-> 0]
    /\ outcome = Return([mode |-> "demand", limit |-> 0])
    /\ cache_props = [mode |-> "demand", maxResults |-> 0]

\* C7: functions() returns, for every name whose latest create_function
\* returned and was not followed by a delete_function of that name, the code
\* of that create; and the mapping it returns is the server's stored
\* name-to-code mapping.
C7_RoundTrip ==
    (op = "functions" /\ outcome.kind = "return") =>
        /\ \A n \in Names :
               latest[n] # None =>
                   /\ n \in DOMAIN outcome.value
                   /\ outcome.value[n] = Value(latest[n])
        /\ outcome.value = store

C7_Witness ==
    /\ op = "functions"
    /\ outcome.kind = "return"
    /\ latest["ns::f"] = Some("function(){}")
    /\ latest["ns::g"] = None
    /\ outcome.value = [x \in {"ns::f", "m::h"} |-> "function(){}"]

\* C8: the documents next() has returned are, in order and once each, the
\* documents the server has delivered in the first batch and the fetched
\* batches, short only of the ones still in the cursor's batch; a fetch is
\* sent only when the batch is empty and has_more is true, never while
\* another is unanswered; an exhausted cursor has returned every delivered
\* document, and next() on it stays exhausted and sends no fetch.
C8_CursorDrain ==
    /\ [](/\ in_flight \in {0, 1}
          /\ \A i \in DOMAIN fetch_log :
                 fetch_log[i].batch = <<>> /\ fetch_log[i].has_more
          /\ cursor # None =>
                 /\ yielded \o CursorBatch(Value(cursor)) = delivered
                 /\ pc = "exhausted" =>
                        /\ yielded = delivered
                        /\ in_flight = 0
                        /\ ~CursorHasMore(Value(cursor)))
    /\ [][pc = "exhausted" =>
              pc' = "exhausted" /\ fetch_log' = fetch_log /\ yielded' = yielded]_vars

C8_Witness ==
    /\ pc = "exhausted"
    /\ yielded = <<1, 2, 3>>
    /\ Len(fetch_log) = 2

====
